---- MODULE Spec2Model ----
(***************************************************************************)
(* Simler v5.0.0 (src/simler.py): the word-level Huffman engine, the       *)
(* container record and its integrity check, as a state machine.           *)
(*                                                                         *)
(* Bytes and characters are integers (code points); a str or a bytes       *)
(* object is a sequence of them.  A bit-string ("0101") is a sequence over *)
(* {0, 1}.  A dict is a function; the empty dict has the empty domain.     *)
(***************************************************************************)
EXTENDS Integers, Sequences, FiniteSets, TLC

VARIABLES
    algo,           \* self.algo
    chunk_size,     \* self.chunk_size
    integrity,      \* self.integrity
    word_dict,      \* self.word_dict
    reverse_dict,   \* self.reverse_dict
    encode_tokens,  \* self.encode_tokens
    input_size,     \* self.input_size
    outFile,        \* the file at the output path: <<>> (absent) or <<record>>
    srcOf,          \* history: the input bytes of the save_sim call that wrote outFile
    op,             \* history: the last call, its arguments, locals and result
    freq,           \* the argument of a direct _build_huffman_tree call
    tree            \* its return value, <<>> before the call

vars == <<algo, chunk_size, integrity, word_dict, reverse_dict, encode_tokens,
          input_size, outFile, srcOf, op, freq, tree>>

----------------------------------------------------------------------------
(* Bounds of the model *)

\* the longest input file that is enumerated exhaustively
MaxLen == 3

\* the largest occurrence count in an enumerated frequency table
MaxCount == 3

\* the longest run of one-letter words among the input files
MaxWords == 9

\* the longest input file of a sequence of calls
MaxSeqLen == 2

----------------------------------------------------------------------------
(* Generic helpers *)

Min(a, b) == IF a < b THEN a ELSE b

\* the concatenation of the sequences of ss, by halves
RECURSIVE Flatten(_)
Flatten(ss) ==
    IF ss = <<>> THEN <<>>
    ELSE IF Len(ss) = 1 THEN ss[1]
    ELSE Flatten(SubSeq(ss, 1, Len(ss) \div 2))
             \o Flatten(SubSeq(ss, Len(ss) \div 2 + 1, Len(ss)))

\* s[:n]
Take(s, n) == SubSeq(s, 1, Min(n, Len(s)))

\* s[n:]
Drop(s, n) == SubSeq(s, Min(n, Len(s)) + 1, Len(s))

IsPrefix(p, s) == Len(p) <= Len(s) /\ SubSeq(s, 1, Len(p)) = p

\* Python's < on two str (and on two lists of integers): lexicographic
RECURSIVE SeqLess(_, _)
SeqLess(s, t) ==
    IF t = <<>> THEN FALSE
    ELSE IF s = <<>> THEN TRUE
    ELSE IF Head(s) # Head(t) THEN Head(s) < Head(t)
    ELSE SeqLess(Tail(s), Tail(t))

----------------------------------------------------------------------------
(* Text: str.split, str.count, str.join, bytes.decode *)

\* the ASCII characters str.split() treats as whitespace
Whitespace == {9, 10, 11, 12, 13, 28, 29, 30, 31, 32}

\* " "
Space == <<32>>

\* bytes.decode("utf-8", errors="replace") on single-byte sequences: an
\* ASCII byte is its own code point, a stray high byte becomes U+FFFD
DecodeReplace(bytes) ==
    [i \in 1..Len(bytes) |-> IF bytes[i] < 128 THEN bytes[i] ELSE 65533]

\* bytes.decode("utf-8", errors="ignore"): a stray high byte is dropped
RECURSIVE DecodeIgnore(_)
DecodeIgnore(bytes) ==
    IF bytes = <<>> THEN <<>>
    ELSE IF Head(bytes) < 128 THEN <<Head(bytes)>> \o DecodeIgnore(Tail(bytes))
    ELSE DecodeIgnore(Tail(bytes))

\* str.split(): the maximal runs of non-whitespace characters, in order
RECURSIVE SplitFrom(_, _)
SplitFrom(text, cur) ==
    IF text = <<>> THEN (IF cur = <<>> THEN <<>> ELSE <<cur>>)
    ELSE IF Head(text) \in Whitespace
         THEN (IF cur = <<>> THEN <<>> ELSE <<cur>>) \o SplitFrom(Tail(text), <<>>)
         ELSE SplitFrom(Tail(text), Append(cur, Head(text)))

Split(text) == SplitFrom(text, <<>>)

\* " ".join(words)
RECURSIVE Join(_)
Join(words) ==
    IF words = <<>> THEN <<>>
    ELSE IF Len(words) = 1 THEN Head(words)
    ELSE Head(words) \o Space \o Join(Tail(words))

\* str.count(p): the number of non-overlapping occurrences of p, p non-empty
RECURSIVE Count(_, _)
Count(s, p) ==
    IF Len(s) < Len(p) THEN 0
    ELSE IF IsPrefix(p, s) THEN 1 + Count(Drop(s, Len(p)), p)
    ELSE Count(Tail(s), p)

----------------------------------------------------------------------------
(* _build_huffman_tree *)

\* collections.Counter(tokens)
Counter(tokens) ==
    [w \in {tokens[i] : i \in 1..Len(tokens)} |->
        Cardinality({i \in 1..Len(tokens) : tokens[i] = w})]

\* Python's < on two [word, code] lists
PairLess(p, q) ==
    IF p[1] # q[1] THEN SeqLess(p[1], q[1]) ELSE SeqLess(p[2], q[2])

\* Python's < on two lists of [word, code] lists
RECURSIVE PairsLess(_, _)
PairsLess(ps, qs) ==
    IF qs = <<>> THEN FALSE
    ELSE IF ps = <<>> THEN TRUE
    ELSE IF Head(ps) # Head(qs) THEN PairLess(Head(ps), Head(qs))
    ELSE PairsLess(Tail(ps), Tail(qs))

\* Python's < on two heap entries [weight, [word, code], ...]
EntryLess(e, f) ==
    IF e.w # f.w THEN e.w < f.w ELSE PairsLess(e.pairs, f.pairs)

\* heapq.heappop: the least entry; the entries are totally ordered, so the
\* heap's internal layout does not decide which one it is
HeapMin(heap) == CHOOSE e \in heap : \A f \in heap \ {e} : EntryLess(e, f)

\* Prepend with the bit put after the code: pair[1] = pair[1] + bit
PrependAfter(bit, pairs) ==
    [i \in 1..Len(pairs) |-> <<pairs[i][1], pairs[i][2] \o <<bit>>>>]

\* for pair in entry[1:]: pair[1] = bit + pair[1]
Prepend(bit, pairs) ==
    [i \in 1..Len(pairs) |-> <<pairs[i][1], <<bit>> \o pairs[i][2]>>]

\* the while loop of _build_huffman_tree
RECURSIVE MergeLoop(_)
MergeLoop(heap) ==
    IF Cardinality(heap) <= 1 THEN heap
    ELSE LET lo == HeapMin(heap)
             hi == HeapMin(heap \ {lo})
             merged == [w |-> lo.w + hi.w,
                        pairs |-> Prepend(0, lo.pairs) \o Prepend(1, hi.pairs)]
         IN MergeLoop((heap \ {lo, hi}) \cup {merged})

\* the sort key of the returned list: (len(code), [word, code])
KeyLess(p, q) ==
    IF Len(p[2]) # Len(q[2]) THEN Len(p[2]) < Len(q[2]) ELSE PairLess(p, q)

\* sorted(pairs, key=...)
RECURSIVE SortPairs(_)
SortPairs(ps) ==
    IF ps = {} THEN <<>>
    ELSE LET m == CHOOSE p \in ps : \A q \in ps \ {p} : KeyLess(p, q)
         IN <<m>> \o SortPairs(ps \ {m})

Range(s) == {s[i] : i \in 1..Len(s)}

_build_huffman_tree(fr) ==
    IF DOMAIN fr = {} THEN <<>>
    ELSE LET heap == {[w |-> fr[word], pairs |-> <<<<word, <<>>>>>>] : word \in DOMAIN fr}
             last == HeapMin(MergeLoop(heap))
         IN SortPairs(Range(last.pairs))

----------------------------------------------------------------------------
(* _create_dictionary_from_sample *)

\* max_phrase_len
MaxPhraseLen == 3

\* words[:1000]
DictTokenLimit == 1000

\* the inner for loop of phrase mode: the longest window of n..2 words whose
\* phrase occurs more than once in the sample, <<>> (None) when there is none
RECURSIVE BestPhrase(_, _, _)
BestPhrase(words, sample, n) ==
    IF n <= 1 THEN <<>>
    ELSE LET p == Join(Take(words, n))
         IN IF Count(sample, p) > 1 THEN p ELSE BestPhrase(words, sample, n - 1)

\* the while loop of phrase mode over the words not yet consumed
RECURSIVE PhraseTokens(_, _)
PhraseTokens(words, sample) ==
    IF words = <<>> THEN <<>>
    ELSE LET best == BestPhrase(words, sample, Min(MaxPhraseLen, Len(words)))
         IN IF best # <<>>
            THEN <<best>> \o PhraseTokens(Drop(words, Len(Split(best))), sample)
            ELSE <<Head(words)>> \o PhraseTokens(Tail(words), sample)

EmptyDict == [w \in {} |-> <<>>]

\* {w: code for w, code in tree}
DictOf(tr) == [w \in {tr[i][1] : i \in 1..Len(tr)} |->
                  (CHOOSE p \in Range(tr) : p[1] = w)[2]]

\* {code: w for w, code in tree}
ReverseOf(tr) == [c \in {tr[i][2] : i \in 1..Len(tr)} |->
                     (CHOOSE p \in Range(tr) : p[2] = c)[1]]

\* The fields of self the method assigns, given their values before the call.
_create_dictionary_from_sample(self, sample, phrase_mode) ==
    LET words == Split(sample)
        assign(tokens, tr) ==
            [word_dict |-> DictOf(tr), reverse_dict |-> ReverseOf(tr),
             encode_tokens |-> tokens]
        build(tokens) == assign(tokens, _build_huffman_tree(Counter(tokens)))
    IN IF words = <<>> THEN self
       ELSE build(IF phrase_mode THEN PhraseTokens(words, sample)
                  ELSE Take(words, DictTokenLimit))

----------------------------------------------------------------------------
(* _bits_to_bytes *)

\* the value of eight bits, most significant first
ByteOf(b) == 128 * b[1] + 64 * b[2] + 32 * b[3] + 16 * b[4]
             + 8 * b[5] + 4 * b[6] + 2 * b[7] + b[8]

\* int(padded, 2).to_bytes(len(padded) // 8, "big"): byte i holds bits 8i-7..8i
ToBytesBig(padded) ==
    [i \in 1..(Len(padded) \div 8) |-> ByteOf(SubSeq(padded, 8 * i - 7, 8 * i))]

Zeros(n) == [i \in 1..n |-> 0]

\* _bits_to_bytes without the outer % 8: a whole byte of padding when the
\* bits already fill their bytes
_bits_to_bytes_pad8(bits) ==
    IF bits = <<>> THEN [bytes |-> <<>>, pad |-> 0]
    ELSE LET pad == 8 - (Len(bits) % 8)
             padded == bits \o Zeros(pad)
         IN [bytes |-> ToBytesBig(padded), pad |-> pad]

_bits_to_bytes(bits) ==
    IF bits = <<>> THEN [bytes |-> <<>>, pad |-> 0]
    ELSE LET pad == (8 - (Len(bits) % 8)) % 8
             padded == bits \o Zeros(pad)
         IN [bytes |-> ToBytesBig(padded), pad |-> pad]

----------------------------------------------------------------------------
(* _checksum: zlib.crc32 and hashlib.sha256 *)

\* A 32-bit word is a sequence of 32 bits, least significant first.
Reverse(s) == [i \in 1..Len(s) |-> s[Len(s) + 1 - i]]

\* 0xEDB88320, the reflected CRC-32 polynomial
CrcPoly == Reverse(<<1,1,1,0, 1,1,0,1, 1,0,1,1, 1,0,0,0,
                     1,0,0,0, 0,0,1,1, 0,0,1,0, 0,0,0,0>>)

Ones32 == [i \in 1..32 |-> 1]

Zero32 == [i \in 1..32 |-> 0]

\* a ^ b; SubSeq makes the word an explicit tuple
Xor32(a, b) == SubSeq([i \in 1..32 |-> (a[i] + b[i]) % 2], 1, 32)

\* a byte as a 32-bit word
Word32(byte) == [i \in 1..32 |-> IF i <= 8 THEN (byte \div (2 ^ (i - 1))) % 2 ELSE 0]

CrcShift(c) == IF c[1] = 1 THEN Xor32(Tail(c) \o <<0>>, CrcPoly) ELSE Tail(c) \o <<0>>

\* zlib's crc_table: entry n is the word of the byte n after eight shifts.
\* SubSeq makes the table an explicit tuple, built once.
CrcTable ==
    SubSeq([n \in 1..256 |->
               CrcShift(CrcShift(CrcShift(CrcShift(
                   CrcShift(CrcShift(CrcShift(CrcShift(Word32(n - 1)))))))))],
           1, 256)

\* (crc ^ byte) & 0xff
LowByte(c, byte) ==
    LET x(i) == (c[i] + ((byte \div (2 ^ (i - 1))) % 2)) % 2
    IN x(1) + 2 * x(2) + 4 * x(3) + 8 * x(4)
       + 16 * x(5) + 32 * x(6) + 64 * x(7) + 128 * x(8)

\* one byte: crc = crc_table[(crc ^ byte) & 0xff] ^ (crc >> 8)
CrcByte(c, byte) ==
    Xor32(CrcTable[LowByte(c, byte) + 1], SubSeq(c, 9, 32) \o <<0, 0, 0, 0, 0, 0, 0, 0>>)

\* the register after the bytes of data, first byte first.  The data is
\* halved to keep the evaluation shallow; the test on mid makes the first
\* half's register a value before the second half starts.
RECURSIVE CrcUpdate(_, _)
CrcUpdate(c, data) ==
    IF data = <<>> THEN c
    ELSE IF Len(data) = 1 THEN CrcByte(c, data[1])
    ELSE LET mid == CrcUpdate(c, SubSeq(data, 1, Len(data) \div 2))
         IN IF Len(mid) = 32
            THEN CrcUpdate(mid, SubSeq(data, Len(data) \div 2 + 1, Len(data)))
            ELSE mid

\* zlib.crc32(data) & 0xffffffff
Crc32(data) == Xor32(CrcUpdate(Ones32, data), Ones32)

\* None
None == [kind |-> "None", val |-> <<>>]

\* hashlib.sha256(data).hexdigest(): a digest is modelled as collision-free,
\* so it stands for the data it was computed from; it is a non-empty str
Sha256Hex(data) == [kind |-> "str", val |-> data]

_checksum(integ, data) ==
    IF data = <<>> \/ integ = "none" THEN None
    ELSE IF integ = "sha256" THEN Sha256Hex(data)
    ELSE [kind |-> "int", val |-> Crc32(data)]

\* Python's truth value of a checksum: None and the integer 0 are false
Truthy(c) == c.kind = "str" \/ (c.kind = "int" /\ c.val # Zero32)

----------------------------------------------------------------------------
(* The library codecs: zlib, gzip, lzma                                     *)
(* A compressed stream is modelled as a self-delimiting frame: a magic      *)
(* byte, the length of the data, the data.  Distinct data give distinct     *)
(* frames, and a decompressor finds where a frame ends, as the real formats *)
(* do.  What each decompress call does with a second frame or with trailing *)
(* bytes follows the library.                                               *)

Frame(magic, data) == <<magic, Len(data)>> \o data

\* the first frame of p: "ok", "format" (no such frame starts here) or
\* "truncated" (it starts but the bytes end early)
ReadFrame(magic, p) ==
    IF p = <<>> \/ p[1] # magic
    THEN [st |-> "format", data |-> <<>>, rest |-> p]
    ELSE IF Len(p) < 2 \/ Len(p) < 2 + p[2]
    THEN [st |-> "truncated", data |-> <<>>, rest |-> p]
    ELSE [st |-> "ok", data |-> SubSeq(p, 3, 2 + p[2]), rest |-> Drop(p, 2 + p[2])]

\* f.read(self.chunk_size) until it returns b""
RECURSIVE Chunks(_, _)
Chunks(data, n) ==
    IF data = <<>> THEN <<>> ELSE <<Take(data, n)>> \o Chunks(Drop(data, n), n)

\* zlib.compress(d, l)
ZlibCompress(d) == Frame(120, d)

\* lzma.compress(d, preset=p)
LzmaCompress(d) == Frame(253, d)

\* _compress_stream called with a lambda: the lambda has no __self__, so obj is
\* None, every chunk is compressed on its own and nothing is flushed
\* (compressor names the lambda: "zlib" or "lzma")
_compress_stream(data, chunk, compressor) ==
    LET cs == Chunks(data, chunk)
    IN Flatten([i \in 1..Len(cs) |->
                  IF compressor = "zlib" THEN ZlibCompress(cs[i])
                  ELSE LzmaCompress(cs[i])])

\* _compress_gzip_stream: every chunk is written to one gzip member
_compress_gzip_stream(data, chunk) == Frame(31, Flatten(Chunks(data, chunk)))

\* zlib.decompress: the first stream; bytes after its end are discarded
ZlibDecompress(p) ==
    LET f == ReadFrame(120, p)
    IN IF f.st = "ok" THEN [ok |-> TRUE, data |-> f.data]
       ELSE [ok |-> FALSE, data |-> <<>>]

\* lzma.decompress: every stream in turn; bytes that start no stream are
\* ignored once one stream was read, a stream that ends early is an error
RECURSIVE LzmaStreams(_, _, _)
LzmaStreams(p, acc, any) ==
    LET f == ReadFrame(253, p)
    IN IF f.st = "ok"
       THEN (IF f.rest = <<>> THEN [ok |-> TRUE, data |-> acc \o f.data]
             ELSE LzmaStreams(f.rest, acc \o f.data, TRUE))
       ELSE IF f.st = "format" /\ any THEN [ok |-> TRUE, data |-> acc]
       ELSE [ok |-> FALSE, data |-> <<>>]

LzmaDecompress(p) == LzmaStreams(p, <<>>, FALSE)

\* gzip.open(io.BytesIO(payload)).read(): every member in turn; anything else
\* after a member is an error
RECURSIVE GzipMembers(_, _)
GzipMembers(p, acc) ==
    LET f == ReadFrame(31, p)
    IN IF f.st = "ok"
       THEN (IF f.rest = <<>> THEN [ok |-> TRUE, data |-> acc \o f.data]
             ELSE GzipMembers(f.rest, acc \o f.data))
       ELSE [ok |-> FALSE, data |-> <<>>]

GzipRead(p) == GzipMembers(p, <<>>)

----------------------------------------------------------------------------
(* _compress_huffman_stream *)

\* f.read(min(1024*1024, self.input_size))
SampleBytes == 1048576

\* self.word_dict.get(w, self.word_dict.get(" ")): <<code>>, or <<>> for None
Lookup(dict, w) ==
    IF w \in DOMAIN dict THEN <<dict[w]>>
    ELSE IF Space \in DOMAIN dict THEN <<dict[Space]>>
    ELSE <<>>

\* the for loop over the words of the chunks; bits += None raises TypeError
RECURSIVE EncodeWords(_, _, _, _)
EncodeWords(words, dict, bits, looked) ==
    IF words = <<>> THEN [raised |-> FALSE, bits |-> bits, looked |-> looked]
    ELSE LET code == Lookup(dict, Head(words))
         IN IF code = <<>>
            THEN [raised |-> TRUE, bits |-> bits, looked |-> Append(looked, Head(words))]
            ELSE EncodeWords(Tail(words), dict, bits \o code[1],
                             Append(looked, Head(words)))

\* the words of every chunk, in the order the while loop meets them
ChunkWords(data, chunk) ==
    LET cs == Chunks(data, chunk)
    IN Flatten([i \in 1..Len(cs) |-> Split(DecodeReplace(cs[i]))])

\* self is the record of the fields _create_dictionary_from_sample assigns;
\* size is self.input_size.  err is "" when the method returns.
_compress_huffman_stream(self, data, size, chunk, phrase_mode) ==
    LET sample == DecodeIgnore(Take(data, Min(SampleBytes, size)))
        \* return self._bits_to_bytes(bits)
        packed(self2, enc, p) ==
            [self |-> self2, err |-> "", bits |-> enc.bits,
             looked |-> enc.looked, compressed |-> p.bytes, pad |-> p.pad]
        \* after the while loop over the chunks
        encoded(self2, enc) ==
            IF enc.raised
            THEN [self |-> self2, err |-> "TypeError", bits |-> enc.bits,
                  looked |-> enc.looked, compressed |-> <<>>, pad |-> 0]
            ELSE packed(self2, enc, _bits_to_bytes(enc.bits))
        \* after self._create_dictionary_from_sample(sample, phrase_mode)
        stream(self2) ==
            IF DOMAIN self2.word_dict = {}
            THEN [self |-> self2, err |-> "Huffman failed", bits |-> <<>>,
                  looked |-> <<>>, compressed |-> <<>>, pad |-> 0]
            ELSE encoded(self2, EncodeWords(ChunkWords(data, chunk),
                                            self2.word_dict, <<>>, <<>>))
    IN stream(_create_dictionary_from_sample(self, sample, phrase_mode))

----------------------------------------------------------------------------
(* save_sim *)

\* self.level, the default of __init__; level = level or self.level
DefaultLevel == 6

\* A file is <<>> when it does not exist and <<contents>> when it does.
NoFile == <<>>

\* the three pickles and the payload that follow each other in a container
Container(al, phrase_mode, integ, checksum, pad, payload) ==
    [meta |-> [algo |-> al, level |-> DefaultLevel, phrase_mode |-> phrase_mode,
               integrity |-> integ],
     checksum |-> checksum, pad |-> pad, payload |-> payload]

\* _write_empty
_write_empty(al, integ) == Container(al, FALSE, integ, None, 0, <<>>)

\* the fields of self that _create_dictionary_from_sample assigns
DictFields(st) == [word_dict |-> st.word_dict, reverse_dict |-> st.reverse_dict,
                   encode_tokens |-> st.encode_tokens]

\* the if/elif chain of save_sim over algo: compressed, pad
Compress(st, data, phrase_mode) ==
    LET same == [self |-> DictFields(st), err |-> "", bits |-> <<>>, looked |-> <<>>,
                 compressed |-> <<>>, pad |-> 0]
    IN CASE st.algo = "huffman" ->
              _compress_huffman_stream(DictFields(st), data, Len(data),
                                       st.chunk_size, phrase_mode)
         [] st.algo = "zlib" ->
              [same EXCEPT !.compressed = _compress_stream(data, st.chunk_size, "zlib")]
         [] st.algo = "gzip" ->
              [same EXCEPT !.compressed = _compress_gzip_stream(data, st.chunk_size)]
         [] st.algo = "lzma" ->
              [same EXCEPT !.compressed = _compress_stream(data, st.chunk_size, "lzma")]
         [] OTHER -> same

\* save_sim with the output file opened before the payload is computed: a
\* call that fails in compression leaves an empty container behind
save_sim_open_first(st, inFile, phrase_mode, force) ==
    LET early(msg) == [st |-> st, failed |-> TRUE, err |-> msg, read |-> FALSE,
                       bits |-> <<>>, looked |-> <<>>, compressed |-> <<>>, pad |-> 0]
        data == inFile[1]
        sized == [st EXCEPT !.input_size = Len(data)]
        after(c) == [sized EXCEPT !.word_dict = c.self.word_dict,
                                  !.reverse_dict = c.self.reverse_dict,
                                  !.encode_tokens = c.self.encode_tokens]
        done(c, s, f, e) == [st |-> s, failed |-> f, err |-> e, read |-> TRUE,
                             bits |-> c.bits, looked |-> c.looked,
                             compressed |-> c.compressed, pad |-> c.pad]
        \* after the if/elif chain over algo: the checksum, then the write
        written(c) ==
            IF c.err # "" THEN done(c, [after(c) EXCEPT !.outFile = <<_write_empty(st.algo, st.integrity)>>], TRUE, c.err)
            ELSE done(c, [after(c) EXCEPT !.outFile =
                             <<Container(st.algo, phrase_mode, st.integrity,
                                         _checksum(st.integrity, c.compressed),
                                         c.pad, c.compressed)>>],
                      FALSE, "")
    IN IF inFile = NoFile THEN early("Input file not found")
       ELSE IF st.outFile # NoFile /\ ~force THEN early("Output exists")
       ELSE IF Len(data) = 0
       THEN [st |-> [sized EXCEPT !.outFile = <<_write_empty(st.algo, st.integrity)>>],
             failed |-> FALSE, err |-> "", read |-> TRUE,
             bits |-> <<>>, looked |-> <<>>, compressed |-> <<>>, pad |-> 0]
       ELSE written(Compress(st, data, phrase_mode))

\* The call on the instance st (its fields and the file at the output path)
\* with the input file inFile.  Every exception is caught at the end of
\* save_sim, which then returns -1.0: failed, with the message in err.
save_sim(st, inFile, phrase_mode, force) ==
    LET early(msg) == [st |-> st, failed |-> TRUE, err |-> msg, read |-> FALSE,
                       bits |-> <<>>, looked |-> <<>>, compressed |-> <<>>, pad |-> 0]
        data == inFile[1]
        sized == [st EXCEPT !.input_size = Len(data)]
        after(c) == [sized EXCEPT !.word_dict = c.self.word_dict,
                                  !.reverse_dict = c.self.reverse_dict,
                                  !.encode_tokens = c.self.encode_tokens]
        done(c, s, f, e) == [st |-> s, failed |-> f, err |-> e, read |-> TRUE,
                             bits |-> c.bits, looked |-> c.looked,
                             compressed |-> c.compressed, pad |-> c.pad]
        \* after the if/elif chain over algo: the checksum, then the write
        written(c) ==
            IF c.err # "" THEN done(c, after(c), TRUE, c.err)
            ELSE done(c, [after(c) EXCEPT !.outFile =
                             <<Container(st.algo, phrase_mode, st.integrity,
                                         _checksum(st.integrity, c.compressed),
                                         c.pad, c.compressed)>>],
                      FALSE, "")
    IN IF inFile = NoFile THEN early("Input file not found")
       ELSE IF st.outFile # NoFile /\ ~force THEN early("Output exists")
       ELSE IF Len(data) = 0
       THEN [st |-> [sized EXCEPT !.outFile = <<_write_empty(st.algo, st.integrity)>>],
             failed |-> FALSE, err |-> "", read |-> TRUE,
             bits |-> <<>>, looked |-> <<>>, compressed |-> <<>>, pad |-> 0]
       ELSE written(Compress(st, data, phrase_mode))

----------------------------------------------------------------------------
(* load_sim *)

\* _decompress_payload: there is no branch for "huffman"
_decompress_payload(al, payload, pad) ==
    CASE al = "zlib" -> ZlibDecompress(payload)
      [] al = "gzip" -> GzipRead(payload)
      [] al = "lzma" -> LzmaDecompress(payload)
      [] OTHER -> [ok |-> FALSE, data |-> <<>>]

\* The call on a reader whose self.integrity is integ.  Every exception is
\* caught at the end of load_sim, which then returns b"": err names it.
\* decompressed tells whether the payload was passed to _decompress_payload.
load_sim(integ, simFile) ==
    LET f == simFile[1]
        current == _checksum(integ, f.payload)
        \* result = self._decompress_payload(algo, payload, pad, progress)
        returned(d) ==
            IF d.ok THEN [result |-> d.data, err |-> "", decompressed |-> TRUE]
            ELSE [result |-> <<>>, err |-> "Decompress failed", decompressed |-> TRUE]
    IN IF simFile = NoFile
       THEN [result |-> <<>>, err |-> "File not found", decompressed |-> FALSE]
       ELSE IF Truthy(f.checksum) /\ integ # "none" /\ current # f.checksum
       THEN [result |-> <<>>, err |-> "Checksum failed", decompressed |-> FALSE]
       ELSE IF f.payload = <<>>
       THEN [result |-> <<>>, err |-> "", decompressed |-> FALSE]
       ELSE returned(_decompress_payload(f.meta.algo, f.payload, f.pad))

----------------------------------------------------------------------------
(* The state machine *)

Algos == {"huffman", "zlib", "gzip", "lzma"}

Integrities == {"sha256", "crc32", "none"}

\* chunk_size: one byte, two bytes, and the default of __init__
ChunkSizes == {1, 2, 1024 * 1024}

\* " ", "a", "b"
Alphabet == {32, 97, 98}

\* "a aa": with chunk_size 1 the fragments of "aa" are words of the dictionary
SplitInput == <<97, 32, 97, 97>>

\* "a b a b": in phrase mode the phrase "a b" occurs twice
PhraseInput == <<97, 32, 98, 32, 97, 32, 98>>

\* 32 one-letter words, "a" where the bit is 0 and "b" where it is 1; "a" is
\* the rarer word, so its code is "0" and the payload is 9d 0a d9 6d
CrcZeroBits == <<1,0,0,1,1,1,0,1, 0,0,0,0,1,0,1,0, 1,1,0,1,1,0,0,1, 0,1,1,0,1,1,0,1>>

CrcZeroInput == Join([i \in 1..32 |-> <<97 + CrcZeroBits[i]>>])

\* the first n of those words: n bits once encoded
WordsInput(n) == Join([i \in 1..n |-> <<97 + CrcZeroBits[i]>>])

\* the contents an input file can have
Inputs ==
    UNION {[1..k -> Alphabet] : k \in 0..MaxLen}
        \cup {SplitInput, PhraseInput, CrcZeroInput}
        \cup {WordsInput(n) : n \in 5..MaxWords}

InputFiles == {NoFile} \cup {<<d>> : d \in Inputs}

\* The instance as the record save_sim works on.
Self ==
    [algo |-> algo, chunk_size |-> chunk_size, integrity |-> integrity,
     word_dict |-> word_dict, reverse_dict |-> reverse_dict,
     encode_tokens |-> encode_tokens, input_size |-> input_size,
     outFile |-> outFile]

\* __init__, no output file yet, nothing called
Init ==
    /\ algo \in Algos
    /\ chunk_size \in ChunkSizes
    /\ integrity \in Integrities
    /\ word_dict = EmptyDict
    /\ reverse_dict = EmptyDict
    /\ encode_tokens = <<>>
    /\ input_size = 0
    /\ outFile = NoFile
    /\ srcOf = <<>>
    /\ op = [kind |-> "init"]
    /\ freq = EmptyDict
    /\ tree = <<>>

\* one call of save_sim on the instance, on one of the input files
Save(files) ==
    \E inFile \in files, phrase_mode \in BOOLEAN, force \in BOOLEAN :
        \E r \in {save_sim(Self, inFile, phrase_mode, force)} :
            /\ word_dict' = r.st.word_dict
            /\ reverse_dict' = r.st.reverse_dict
            /\ encode_tokens' = r.st.encode_tokens
            /\ input_size' = r.st.input_size
            /\ outFile' = r.st.outFile
            /\ srcOf' = IF r.failed THEN srcOf ELSE inFile
            /\ op' = [kind |-> "save", failed |-> r.failed, err |-> r.err,
                      read |-> r.read,
                      input |-> IF r.read THEN inFile[1] ELSE <<>>,
                      phrase_mode |-> r.read /\ phrase_mode,
                      force |-> force /\ outFile # NoFile,
                      bits |-> r.bits, looked |-> r.looked,
                      compressed |-> r.compressed, pad |-> r.pad]
            /\ UNCHANGED <<algo, chunk_size, integrity, freq, tree>>

\* the first call of save_sim on a new instance
SaveSim == op.kind = "init" /\ Save(InputFiles)

\* the payload of a container with its first or last byte changed, the last
\* byte removed, or one byte appended
Tampered(f) ==
    LET p == f.payload
    IN {[f EXCEPT !.payload = [p EXCEPT ![i] = (p[i] + 1) % 256]] :
            i \in {1, Len(p)} \cap (1..Len(p))}
       \cup (IF p = <<>> THEN {} ELSE {[f EXCEPT !.payload = SubSeq(p, 1, Len(p) - 1)]})
       \cup {[f EXCEPT !.payload = Append(p, 0)]}

\* one call of load_sim after a save_sim call, by a reader with its own
\* integrity mode, on the container at the output path or on a copy of it
\* whose payload was changed
LoadSim ==
    /\ outFile # NoFile
    /\ op.kind = "save"
    /\ \E reader \in Integrities, simFile \in {outFile[1]} \cup Tampered(outFile[1]) :
        \E r \in {load_sim(reader, <<simFile>>)} :
            op' = [kind |-> "load", reader |-> reader, file |-> simFile,
                   tampered |-> simFile # outFile[1],
                   result |-> r.result, err |-> r.err,
                   decompressed |-> r.decompressed]
    /\ UNCHANGED <<algo, chunk_size, integrity, word_dict, reverse_dict,
                   encode_tokens, input_size, outFile, srcOf, freq, tree>>

Next == SaveSim \/ LoadSim

\* a new instance saves one input file, then a reader loads the container
Spec == Init /\ [][Next]_vars

----------------------------------------------------------------------------
(* save_sim called again and again on one instance *)

\* " ", "a"
SeqAlphabet == {32, 97}

\* "a b": two words, a payload that is not empty
TwoWords == <<97, 32, 98>>

SeqInputs == UNION {[1..k -> SeqAlphabet] : k \in 0..MaxSeqLen} \cup {TwoWords}

SeqFiles == {NoFile} \cup {<<d>> : d \in SeqInputs}

SaveAgain == Save(SeqFiles)

NextSeq == SaveAgain

\* the instance of a sequence: the default integrity, one-byte or default chunks
InitSeq == Init /\ integrity = "sha256" /\ chunk_size \in {1, 1024 * 1024}

SpecSeq == InitSeq /\ [][NextSeq]_vars

----------------------------------------------------------------------------
(* _build_huffman_tree called on its own, on every small frequency table *)

\* "a", "b", "c", "ab"
TreeWords == {<<97>>, <<98>>, <<99>>, <<97, 98>>}

InitTree ==
    /\ algo = "huffman"
    /\ chunk_size = 1
    /\ integrity = "none"
    /\ word_dict = EmptyDict
    /\ reverse_dict = EmptyDict
    /\ encode_tokens = <<>>
    /\ input_size = 0
    /\ outFile = NoFile
    /\ srcOf = <<>>
    /\ op = [kind |-> "init"]
    /\ freq \in UNION {[ws -> 1..MaxCount] : ws \in SUBSET TreeWords}
    /\ tree = <<>>

BuildTree ==
    /\ op.kind = "init"
    /\ op' = [kind |-> "tree"]
    /\ tree' = _build_huffman_tree(freq)
    /\ UNCHANGED <<algo, chunk_size, integrity, word_dict, reverse_dict,
                   encode_tokens, input_size, outFile, srcOf, freq>>

NextTree == BuildTree

SpecTree == InitTree /\ [][NextTree]_vars

----------------------------------------------------------------------------
(* Properties *)

\* the table _create_dictionary_from_sample builds from a sample alone
TableOf(sample, phrase_mode) ==
    _create_dictionary_from_sample(
        [word_dict |-> EmptyDict, reverse_dict |-> EmptyDict, encode_tokens |-> <<>>],
        sample, phrase_mode).word_dict

\* the last call was save_sim with algo "huffman" and got to read its input
HuffmanSave == op.kind = "save" /\ op.read /\ algo = "huffman" /\ op.input # <<>>

\* the last call was load_sim on the container as save_sim wrote it
PlainLoad == op.kind = "load" /\ ~op.tampered

\* C1: load_sim, with the configuration of the writer, returns the bytes of
\* the input file that save_sim wrote the container for.
RoundTrip ==
    (PlainLoad /\ op.reader = integrity) => op.result = srcOf[1]

\* C2: when the payload of a container that carries a checksum was changed
\* and the reader's integrity mode is not "none", load_sim fails on the
\* checksum, returns nothing and never passes the payload to decompression.
IntegrityEnforced ==
    (op.kind = "load" /\ op.tampered /\ outFile[1].checksum # None
        /\ op.reader # "none")
    => (op.err = "Checksum failed" /\ op.result = <<>> /\ ~op.decompressed)

\* C3: a huffman save_sim call whose input holds a word that is no key of
\* the table built from its sample does not fail and writes its container.
FallbackEncodes ==
    (HuffmanSave /\ DOMAIN word_dict # {}
        /\ \E w \in Range(Split(DecodeReplace(op.input))) : w \notin DOMAIN word_dict)
    => (~op.failed /\ outFile # NoFile /\ outFile[1].payload = op.compressed)

\* C4: whenever a huffman save_sim call gets to encode its input, the table
\* it encodes with is the one built from that input's own leading sample.
TableOfOwnSample ==
    (HuffmanSave /\ op.err # "Huffman failed")
    => word_dict = TableOf(DecodeIgnore(Take(op.input, Min(SampleBytes, Len(op.input)))),
                           op.phrase_mode)

\* C5: a save_sim call that fails leaves the file at the output path as it
\* was, and a call that succeeds leaves there the whole record: the payload
\* it computed, the checksum of that payload and its padding count.
NoPartialCommit ==
    [][op'.kind = "save" =>
          IF op'.failed THEN outFile' = outFile
          ELSE /\ outFile' # NoFile
               /\ outFile'[1].payload = op'.compressed
               /\ outFile'[1].checksum = _checksum(integrity, op'.compressed)
               /\ outFile'[1].pad = op'.pad]_vars

\* C5, its case: dictionary construction or encoding failed in a call made
\* with force=True on an output path that held a container
FailedOverExisting ==
    /\ op.kind = "save" /\ op.failed /\ op.force
    /\ op.err \in {"TypeError", "Huffman failed"}
    /\ outFile # NoFile

\* C6: the codes _build_huffman_tree gives to the words of a non-empty
\* frequency table are pairwise distinct, none is a prefix of another, and
\* the reverse table is the inverse of the code table.
PrefixFree ==
    (op.kind = "tree" /\ DOMAIN freq # {})
    => /\ {tree[i][1] : i \in 1..Len(tree)} = DOMAIN freq
       /\ Len(tree) = Cardinality(DOMAIN freq)
       /\ \A i, j \in 1..Len(tree) : i # j => ~IsPrefix(tree[i][2], tree[j][2])
       /\ \A w \in DOMAIN freq : ReverseOf(tree)[DictOf(tree)[w]] = w
       /\ \A c \in DOMAIN ReverseOf(tree) : DictOf(tree)[ReverseOf(tree)[c]] = c

\* C6, its case: a table of three or more words, with codes of two lengths
ThreeWordTree ==
    /\ op.kind = "tree" /\ Cardinality(DOMAIN freq) >= 3
    /\ \E i, j \in 1..Len(tree) : Len(tree[i][2]) < Len(tree[j][2])

\* C7: the code of the only word of a one-word frequency table has at least
\* one bit.
SingleTokenCode ==
    (op.kind = "tree" /\ Cardinality(DOMAIN freq) = 1) => Len(tree[1][2]) >= 1

\* the bits of a payload, most significant bit of the first byte first
BitsOf(bytes) ==
    [k \in 1..(8 * Len(bytes)) |->
        (bytes[(k + 7) \div 8] \div (2 ^ (7 - ((k - 1) % 8)))) % 2]

\* C8: the padding count of a huffman save_sim call is in 0..7, fills the
\* bits to whole bytes, the payload is exactly the bits followed by that many
\* zero bits, and the record holds that count and that payload.
PaddingBound ==
    (HuffmanSave /\ ~op.failed)
    => /\ op.pad \in 0..7
       /\ (Len(op.bits) + op.pad) % 8 = 0
       /\ 8 * Len(op.compressed) = Len(op.bits) + op.pad
       /\ BitsOf(op.compressed) = op.bits \o Zeros(op.pad)
       /\ outFile[1].pad = op.pad
       /\ outFile[1].payload = op.compressed

\* C8, its case: a payload of several bytes whose bits needed padding
PaddedPayload ==
    HuffmanSave /\ ~op.failed /\ Len(op.compressed) > 1 /\ op.pad > 0

\* C9: an unchanged container written under sha256 or crc32 passes the
\* checksum verification of every reader whose mode is sha256 or crc32.
TagSelectsChecksum ==
    (PlainLoad /\ op.file.checksum # None /\ op.reader # "none")
    => op.err # "Checksum failed"

\* C10: the words a huffman save_sim call looks up, chunk after chunk, are
\* the words of the whole input.
TokensNotSplit ==
    (HuffmanSave /\ ~op.failed) => op.looked = Split(DecodeReplace(op.input))

====
